---- MODULE Spec2Model ----
(***************************************************************************)
(* Model of dev/cuda/positional_forward.cu: the GPT-2 positional encoder   *)
(* forward pass (out[b,t,:] = wte[inp[b,t],:] + wpe[t,:]), its CPU         *)
(* reference, the two CUDA kernels, their launchers and dispatcher, and    *)
(* the validation / benchmark driver in main.                              *)
(*                                                                         *)
(* Buffers are functions from offsets 0..n-1 to values.  float values are  *)
(* modelled by integers and the float addition of line 33/57/80 by integer *)
(* addition: every element is produced by one addition of two table        *)
(* entries, and the tables used are injective, so the sum identifies the   *)
(* two offsets that were read.                                             *)
(*                                                                         *)
(* Two specifications:                                                     *)
(*   Spec      one device buffer, kernels run worker by worker under every *)
(*             interleaving, launched again and again at any block size;   *)
(*   SpecMain  the run of main, each dispatcher call one step.             *)
(***************************************************************************)
EXTENDS Integers, Sequences, FiniteSets, TLC

\* ------------------------------------------------------------------ bounds
\* B, T, C <= MaxDim; V <= MaxV; block sizes 1..MaxBlock; a launch has at most
\* MaxWorkers workers, so B*T*C <= MaxWorkers
MaxDim == 2
MaxWorkers == 9
MaxV == 2
MaxBlock == 3
\* duration of one timed call, in clock ticks: 1..MaxTick
MaxTick == 2

VARIABLES
    B, T, C, V,        \* dimensions (main, lines 131-134)
    inp, wte, wpe,     \* device inputs d_inp, d_wte, d_wpe (read only)
    out,               \* host buffer out: the reference result (line 140, 166)
    d_out,             \* device output buffer (line 150)
    kernel_num,        \* the selector handed to encoder_forward
    block_size,        \* blockDim.x of the launch in flight
    grid_size,         \* gridDim.x of the launch in flight
    phase,             \* "idle" | "running" | "synced" | "exited"
    thr,               \* per worker <<blockIdx.x, threadIdx.x>>: its position and locals
    accesses,          \* history: per worker, its memory accesses <<buffer, offset, kind>>
    nwrites,           \* history: stores per offset of d_out in the launch in flight
    ref_out,           \* history: d_out at the first synchronisation
    synced_once,       \* history: some launch has completed
    argv,              \* command line after the program name; a string is a tuple of characters
    pc,                \* position of main
    stdout,            \* lines printed so far
    exit_code,         \* -1 while the process runs
    j,                 \* index into block_sizes (line 173)
    rep,               \* calls made by the benchmark_kernel call in flight
    elapsed,           \* ticks accumulated by the benchmark_kernel call in flight
    tick,              \* ticks one dispatcher call takes on this device
    hist               \* history of the run of main: launches, validator calls, calls per block size

kvars == <<B, T, C, V, inp, wte, wpe, out, d_out, kernel_num, block_size,
           grid_size, phase, thr, accesses, nwrites, ref_out, synced_once>>
mvars == <<argv, pc, stdout, exit_code, j, rep, elapsed, tick, hist>>
vars == <<kvars, mvars>>

\* ------------------------------------------------------------- memory model
\* a buffer of n elements, each holding g
Fill(n, g) == [o \in 0..(n - 1) |-> g]

\* what an uninitialised or out-of-bounds location may hold
JunkVals == {-1, 0}

\* a load: the stored value, or anything when the offset is outside the buffer
ReadVals(buf, off) == IF off \in DOMAIN buf THEN {buf[off]} ELSE JunkVals

\* a store: an out-of-bounds store does not land in the buffer
Store(buf, off, v) == IF off \in DOMAIN buf THEN [buf EXCEPT ![off] = v] ELSE buf

\* the assignment out[...] = ... of a kernel (lines 57 and 80); the faulty variant
\* dev_store_accum adds to what the element held (+= for =)
dev_store_accum(buf, off, v) ==
    IF off \in DOMAIN buf THEN [buf EXCEPT ![off] = @ + v] ELSE buf
dev_store(buf, off, v) == Store(buf, off, v)

\* the stores counted per offset
Count(cnt, off) == IF off \in DOMAIN cnt THEN [cnt EXCEPT ![off] = @ + 1] ELSE cnt

\* ------------------------------------------------------------ CPU reference
RECURSIVE cpu_loop_i(_, _, _, _)
cpu_loop_i(o, b, t, i) ==
    IF i < C
    THEN LET out_bt == b * T * C + t * C
             ix == CHOOSE x \in ReadVals(inp, b * T + t) : TRUE
             wte_ix == ix * C
             wpe_t == t * C
             a == CHOOSE x \in ReadVals(wte, wte_ix + i) : TRUE
             p == CHOOSE x \in ReadVals(wpe, wpe_t + i) : TRUE
         IN cpu_loop_i(Store(o, out_bt + i, a + p), b, t, i + 1)
    ELSE o

RECURSIVE cpu_loop_t(_, _, _)
cpu_loop_t(o, b, t) ==
    IF t < T THEN cpu_loop_t(cpu_loop_i(o, b, t, 0), b, t + 1) ELSE o

RECURSIVE cpu_loop_b(_, _)
cpu_loop_b(o, b) ==
    IF b < B THEN cpu_loop_b(cpu_loop_t(o, b, 0), b + 1) ELSE o

encoder_forward_cpu(o) == cpu_loop_b(o, 0)

\* ------------------------------------------------------------------ kernels
\* Each line of a kernel is an operator of its own.  The operators named after a
\* fault (GlobalIdx_nostride, kernel1_guard_le, ...) are faulty variants of the one
\* that follows them; they are used by no specification here, and serve to see
\* that a statement fails when the line it rests on is wrong.

\* idx = blockIdx.x * blockDim.x + threadIdx.x; the faulty variant drops blockDim.x
GlobalIdx_nostride(blockIdx, blockDim, threadIdx) == blockIdx + threadIdx
GlobalIdx(blockIdx, blockDim, threadIdx) == blockIdx * blockDim + threadIdx

\* encoder_forward_kernel1: one worker per (b,t), loop over C
kernel1_N == B * T
\* if (idx < N); the faulty variant lets idx = N through
kernel1_guard_le(idx) == idx <= kernel1_N
kernel1_guard(idx) == idx < kernel1_N
kernel1_b(idx) == idx \div T
kernel1_t(idx) == idx % T
kernel1_inp_off(idx) == kernel1_b(idx) * T + kernel1_t(idx)
kernel1_out_bt(idx) == kernel1_b(idx) * T * C + kernel1_t(idx) * C
kernel1_wte_ix(ix) == ix * C
\* wpe_t = wpe + t * C; the faulty variant takes the row of b
kernel1_wpe_t_from_b(idx) == kernel1_b(idx) * C
kernel1_wpe_t(idx) == kernel1_t(idx) * C

\* encoder_forward_kernel2: one worker per (b,t,c)
kernel2_N == B * T * C
kernel2_guard(idx) == idx < kernel2_N
kernel2_bt(idx) == idx \div C
kernel2_b(idx) == kernel2_bt(idx) \div T
\* t = bt % T; the faulty variant takes idx % T
kernel2_t_of_idx(idx) == idx % T
kernel2_t(idx) == kernel2_bt(idx) % T
kernel2_c(idx) == idx % C
kernel2_inp_off(idx) == kernel2_b(idx) * T + kernel2_t(idx)
kernel2_out_btc(idx) == kernel2_b(idx) * T * C + kernel2_t(idx) * C + kernel2_c(idx)
kernel2_wte_ix(idx, ix) == ix * C + kernel2_c(idx)
kernel2_wpe_tc(idx) == kernel2_t(idx) * C + kernel2_c(idx)

\* ---------------------------------------------------------------- launchers
\* ceil_div of common.h: the number of groups of `divisor' that cover `dividend'
ceil_div(dividend, divisor) == (dividend + divisor - 1) \div divisor

\* N of encoder_forward1 and of encoder_forward2; the faulty variant launches
\* encoder_forward_kernel2 over the tokens only
encoder_forward1_N == B * T
encoder_forward2_N_tokens == B * T
encoder_forward2_N == B * T * C

\* the switch of encoder_forward: 1, 2, or 0 for the default branch; the faulty
\* variant falls through to kernel 2
dispatch_default2(k) == IF k = 1 THEN 1 ELSE 2
dispatch(k) == CASE k = 1 -> 1 [] k = 2 -> 2 [] OTHER -> 0

launcher_N(sel) == IF sel = 1 THEN encoder_forward1_N ELSE encoder_forward2_N

Workers(grid, blk) == (0..(grid - 1)) \X (0..(blk - 1))

Idx(w) == GlobalIdx(w[1], block_size, w[2])

NoHist == [launches |-> 0, validator |-> 0, validated |-> FALSE, calls |-> <<>>]

Ready == [st |-> "ready", i |-> 0, ix |-> 0]
Done == [st |-> "done", i |-> 0, ix |-> 0]

AllDone == \A w \in DOMAIN thr : thr[w].st = "done"

\* ------------------------------------------------------ Spec: initial states
\* at most MaxWorkers elements, and at most half as many tokens
MaxTokens == MaxWorkers \div 2

Dims ==
    {d \in (1..MaxDim) \X (1..MaxDim) \X (1..MaxDim) \X (1..MaxV) :
        d[1] * d[2] <= MaxTokens /\ d[1] * d[2] * d[3] <= MaxWorkers}

\* token tensors: the constant ones, so that every position holds every token of
\* [0,V) in some tensor, and the one that cycles through the tokens, whose rows differ
InpTensors(n, v) ==
    {[k \in 0..(n - 1) |-> s] : s \in 0..(v - 1)} \cup {[k \in 0..(n - 1) |-> k % v]}

WteTable(n) == [o \in 0..(n - 1) |-> 100 * (o + 1)]
WpeTable(n) == [o \in 0..(n - 1) |-> o + 1]

Init ==
    /\ \E d \in Dims : B = d[1] /\ T = d[2] /\ C = d[3] /\ V = d[4]
    /\ inp \in InpTensors(B * T, V)
    /\ wte = WteTable(V * C)
    /\ wpe = WpeTable(T * C)
    /\ out = encoder_forward_cpu(Fill(B * T * C, 0))
    /\ \E g \in JunkVals : d_out = Fill(B * T * C, g)
    /\ kernel_num \in 1..2
    /\ block_size = 0
    /\ grid_size = 0
    /\ phase = "idle"
    /\ thr = <<>>
    /\ accesses = <<>>
    /\ nwrites = Fill(B * T * C, 0)
    /\ ref_out = d_out
    /\ synced_once = FALSE
    /\ argv = <<>>
    /\ pc = "device"
    /\ stdout = <<>>
    /\ exit_code = -1
    /\ j = 0
    /\ rep = 0
    /\ elapsed = 0
    /\ tick = 1
    /\ hist = NoHist

\* ---------------------------------------------------------- Spec: actions
\* encoder_forward -> encoder_forward1 / encoder_forward2 (lines 87-124)
Launch(bs, err) ==
    /\ phase \in {"idle", "synced"}
    /\ ceil_div(launcher_N(dispatch(kernel_num)), bs) * bs <= MaxWorkers
    /\ LET sel == dispatch(kernel_num)
           grid == ceil_div(launcher_N(sel), bs)
       IN IF sel = 0 \/ err
          THEN /\ phase' = "exited"
               /\ UNCHANGED <<block_size, grid_size, thr, accesses, nwrites>>
          ELSE /\ phase' = "running"
               /\ block_size' = bs
               /\ grid_size' = grid
               /\ thr' = [w \in Workers(grid, bs) |-> Ready]
               /\ accesses' = [w \in Workers(grid, bs) |-> {}]
               /\ nwrites' = [o \in DOMAIN nwrites |-> 0]
    /\ UNCHANGED <<B, T, C, V, inp, wte, wpe, out, d_out, kernel_num, ref_out,
                   synced_once>>
    /\ UNCHANGED mvars

\* encoder_forward_kernel1, lines 46-55: index, guard, load of inp
Kernel1Enter(w) ==
    /\ phase = "running" /\ kernel_num = 1
    /\ thr[w].st = "ready"
    /\ LET idx == Idx(w)
       IN IF kernel1_guard(idx)
          THEN \E ix \in ReadVals(inp, kernel1_inp_off(idx)) :
                /\ thr' = [thr EXCEPT ![w] =
                               [st |-> IF 0 < C THEN "loop" ELSE "done",
                                i |-> 0, ix |-> ix]]
                /\ accesses' = [accesses EXCEPT ![w] =
                                    @ \cup {<<"inp", kernel1_inp_off(idx), "r">>}]
          ELSE /\ thr' = [thr EXCEPT ![w] = Done]
               /\ UNCHANGED accesses
    /\ UNCHANGED <<B, T, C, V, inp, wte, wpe, out, d_out, kernel_num, block_size,
                   grid_size, phase, nwrites, ref_out, synced_once>>
    /\ UNCHANGED mvars

\* encoder_forward_kernel1, lines 56-58: one iteration of the loop over C
Kernel1Loop(w) ==
    /\ phase = "running" /\ kernel_num = 1
    /\ thr[w].st = "loop"
    /\ LET idx == Idx(w)
           i == thr[w].i
           wo == kernel1_wte_ix(thr[w].ix) + i
           po == kernel1_wpe_t(idx) + i
           oo == kernel1_out_bt(idx) + i
       IN \E a \in ReadVals(wte, wo), p \in ReadVals(wpe, po) :
            /\ d_out' = dev_store(d_out, oo, a + p)
            /\ nwrites' = Count(nwrites, oo)
            /\ accesses' = [accesses EXCEPT ![w] =
                                @ \cup {<<"wte", wo, "r">>, <<"wpe", po, "r">>,
                                        <<"out", oo, "w">>}]
            /\ thr' = [thr EXCEPT ![w] =
                           [st |-> IF i + 1 < C THEN "loop" ELSE "done",
                            i |-> i + 1, ix |-> thr[w].ix]]
    /\ UNCHANGED <<B, T, C, V, inp, wte, wpe, out, kernel_num, block_size,
                   grid_size, phase, ref_out, synced_once>>
    /\ UNCHANGED mvars

\* encoder_forward_kernel2, lines 66-81: the whole body of one worker
Kernel2Step(w) ==
    /\ phase = "running" /\ kernel_num = 2
    /\ thr[w].st = "ready"
    /\ LET idx == Idx(w)
       IN IF kernel2_guard(idx)
          THEN LET io == kernel2_inp_off(idx)
                   oo == kernel2_out_btc(idx)
                   po == kernel2_wpe_tc(idx)
               IN \E ix \in ReadVals(inp, io) :
                    LET wo == kernel2_wte_ix(idx, ix)
                    IN \E a \in ReadVals(wte, wo), p \in ReadVals(wpe, po) :
                         /\ d_out' = dev_store(d_out, oo, a + p)
                         /\ nwrites' = Count(nwrites, oo)
                         /\ accesses' = [accesses EXCEPT ![w] = @ \cup
                                {<<"inp", io, "r">>, <<"wte", wo, "r">>,
                                 <<"wpe", po, "r">>, <<"out", oo, "w">>}]
                         /\ thr' = [thr EXCEPT ![w] = [st |-> "done", i |-> 0, ix |-> ix]]
          ELSE /\ thr' = [thr EXCEPT ![w] = Done]
               /\ UNCHANGED <<d_out, nwrites, accesses>>
    /\ UNCHANGED <<B, T, C, V, inp, wte, wpe, out, kernel_num, block_size,
                   grid_size, phase, ref_out, synced_once>>
    /\ UNCHANGED mvars

\* the host-visible synchronisation point: every worker of the grid has finished
Sync ==
    /\ phase = "running"
    /\ AllDone
    /\ phase' = "synced"
    /\ ref_out' = IF synced_once THEN ref_out ELSE d_out
    /\ synced_once' = TRUE
    /\ UNCHANGED <<B, T, C, V, inp, wte, wpe, out, d_out, kernel_num, block_size,
                   grid_size, thr, accesses, nwrites>>
    /\ UNCHANGED mvars

Next ==
    \/ \E bs \in 1..MaxBlock, err \in BOOLEAN : Launch(bs, err)
    \/ \E w \in DOMAIN thr : Kernel1Enter(w)
    \/ \E w \in DOMAIN thr : Kernel1Loop(w)
    \/ \E w \in DOMAIN thr : Kernel2Step(w)
    \/ Sync

Spec == Init /\ [][Next]_vars

\* ===================================================================== main
\* program constants of main
main_B == 8
main_T == 1024
main_C == 768
check_block_size == 256
repeat_times == 1000
\* block_sizes of line 171; the faulty variant lists them downwards
block_sizes_reversed == <<1024, 512, 256, 128, 64, 32>>
block_sizes == <<32, 64, 128, 256, 512, 1024>>

\* 32-bit int multiplication x * n for 0 <= n < 2^15, by 16-bit halves; a product
\* outside the int range is undefined in C and wraps in the builds of nvcc and gcc
\* (two's complement)
IntMul(x, n) ==
    LET lo == (x % 65536) * n
        hi == (((x \div 65536) % 65536) * n + lo \div 65536) % 65536
    IN (IF hi >= 32768 THEN hi - 65536 ELSE hi) * 65536 + (lo % 65536)

\* long memory_ops = B * T * C * 4 * 4 (line 184), the product taken in int; the
\* faulty variant counts a row of C elements per element, which leaves the int range
memory_ops_per_row == IntMul(IntMul(IntMul(IntMul(IntMul(main_B, main_T), main_C), main_C), 4), 4)
memory_ops == IntMul(IntMul(IntMul(IntMul(main_B, main_T), main_C), 4), 4)

\* atoi of a string given as a tuple of characters: blanks, a sign, then digits
DigitVal(c) ==
    CASE c = "0" -> 0 [] c = "1" -> 1 [] c = "2" -> 2 [] c = "3" -> 3 [] c = "4" -> 4
      [] c = "5" -> 5 [] c = "6" -> 6 [] c = "7" -> 7 [] c = "8" -> 8 [] c = "9" -> 9
      [] OTHER -> -1

RECURSIVE atoi_digits(_, _, _)
atoi_digits(s, k, acc) ==
    IF k <= Len(s) /\ DigitVal(s[k]) >= 0
    THEN atoi_digits(s, k + 1, acc * 10 + DigitVal(s[k]))
    ELSE acc

RECURSIVE atoi_from(_, _)
atoi_from(s, k) ==
    IF k > Len(s) THEN 0
    ELSE IF s[k] = " " THEN atoi_from(s, k + 1)
    ELSE IF s[k] = "-" THEN 0 - atoi_digits(s, k + 1, 0)
    ELSE IF s[k] = "+" THEN atoi_digits(s, k + 1, 0)
    ELSE atoi_digits(s, k, 0)

atoi(s) == atoi_from(s, 1)

\* ---------------------------------------------- a whole grid, as the host sees it
\* the stores of one worker of encoder_forward_kernel1 / encoder_forward_kernel2:
\* pairs <<offset of out, value>>
kernel1_stores(idx) ==
    IF kernel1_guard(idx)
    THEN UNION {UNION {{<<kernel1_out_bt(idx) + i, a + p>> :
                           a \in ReadVals(wte, kernel1_wte_ix(ix) + i),
                           p \in ReadVals(wpe, kernel1_wpe_t(idx) + i)} :
                       i \in 0..(C - 1)} :
                ix \in ReadVals(inp, kernel1_inp_off(idx))}
    ELSE {}

kernel2_stores(idx) ==
    IF kernel2_guard(idx)
    THEN UNION {{<<kernel2_out_btc(idx), a + p>> :
                    a \in ReadVals(wte, kernel2_wte_ix(idx, ix)),
                    p \in ReadVals(wpe, kernel2_wpe_tc(idx))} :
                ix \in ReadVals(inp, kernel2_inp_off(idx))}
    ELSE {}

GridStores(sel, grid, bs) ==
    UNION {IF sel = 1 THEN kernel1_stores(GlobalIdx(bx, bs, tx))
                      ELSE kernel2_stores(GlobalIdx(bx, bs, tx)) :
           bx \in 0..(grid - 1), tx \in 0..(bs - 1)}

\* the contents an offset may hold once the grid has finished
Landed(buf, stores, o) ==
    LET here == {q \in stores : q[1] = o}
    IN IF here = {} THEN {buf[o]} ELSE {dev_store(buf, o, q[2])[o] : q \in here}

GridResults(buf, stores) ==
    IF \A o \in DOMAIN buf : Cardinality(Landed(buf, stores, o)) = 1
    THEN {[o \in DOMAIN buf |-> CHOOSE v \in Landed(buf, stores, o) : TRUE]}
    ELSE {f \in [DOMAIN buf -> UNION {Landed(buf, stores, o) : o \in DOMAIN buf}] :
             \A o \in DOMAIN buf : f[o] \in Landed(buf, stores, o)}

\* ------------------------------------------------------- SpecMain: initial states
ArgStrings == {<<"1">>, <<"2">>, <<"0">>, <<"3">>, <<"x">>, <<"-", "1">>, <<>>}
Args == {<<>>} \cup {<<s>> : s \in ArgStrings}

\* The tensors of main (B = 8, T = 1024, C = 768, V = 50257) are scaled down to
\* B = T = C = 2, V = 3; the arithmetic on the sizes (memory_ops) and the block
\* sizes, the repeat count and the validation block size keep the program's values.
MainInp == [k \in 0..3 |-> IF k = 3 THEN 0 ELSE k]

MainInit ==
    /\ B = 2 /\ T = 2 /\ C = 2 /\ V = 3
    /\ inp = MainInp
    /\ wte = WteTable(V * C)
    /\ wpe = WpeTable(T * C)
    /\ \E g \in JunkVals : out = Fill(B * T * C, g)
    /\ \E g \in JunkVals : d_out = Fill(B * T * C, g)
    /\ kernel_num = 2
    /\ block_size = 0
    /\ grid_size = 0
    /\ phase = "idle"
    /\ thr = <<>>
    /\ accesses = <<>>
    /\ nwrites = Fill(B * T * C, 0)
    /\ ref_out = nwrites
    /\ synced_once = FALSE
    /\ argv \in Args
    /\ pc = "start"
    /\ stdout = <<>>
    /\ exit_code = -1
    /\ j = 0
    /\ rep = 0
    /\ elapsed = 0
    /\ tick \in 1..MaxTick
    /\ hist = [NoHist EXCEPT !.calls = [k \in 1..Len(block_sizes) |-> 0]]

\* ------------------------------------------------------------ SpecMain: actions
Exit(code) == pc' = "exited" /\ exit_code' = code

\* what main does after the validation launch: validate_result (line 168); the
\* faulty variant goes on to the timing loop
pc_after_check_skip == "bench"
pc_after_check == "validate"

\* main, lines 129-163; err: a CUDA call of lines 137-156 fails and cudaCheck exits
MainSetup(err) ==
    /\ pc = "start"
    /\ IF err
       THEN /\ Exit(1)
            /\ UNCHANGED <<kernel_num, stdout>>
       ELSE /\ kernel_num' = IF Len(argv) >= 1 THEN atoi(argv[1]) ELSE 2
            /\ stdout' = Append(stdout, [kind |-> "using", kernel |-> kernel_num'])
            /\ pc' = "cpu"
            /\ UNCHANGED exit_code
    /\ UNCHANGED <<B, T, C, V, inp, wte, wpe, out, d_out, block_size, grid_size,
                   phase, thr, accesses, nwrites, ref_out, synced_once>>
    /\ UNCHANGED <<argv, j, rep, elapsed, tick, hist>>

\* main, line 166
MainCpu ==
    /\ pc = "cpu"
    /\ out' = encoder_forward_cpu(out)
    /\ pc' = "check"
    /\ UNCHANGED <<B, T, C, V, inp, wte, wpe, d_out, kernel_num, block_size,
                   grid_size, phase, thr, accesses, nwrites, ref_out, synced_once>>
    /\ UNCHANGED <<argv, stdout, exit_code, j, rep, elapsed, tick, hist>>

\* encoder_forward (lines 108-124) with the launcher it selects (lines 87-105), 
\* going on at `to' when it returns; err: cudaGetLastError reports a failed launch
EncoderForward(bs, err, to) ==
    LET sel == dispatch(kernel_num)
        grid == ceil_div(launcher_N(sel), bs)
    IN IF sel = 0
       THEN /\ stdout' = Append(stdout, [kind |-> "invalid"])
            /\ Exit(1)
            /\ UNCHANGED <<d_out, block_size, grid_size>>
       ELSE /\ block_size' = bs
            /\ grid_size' = grid
            /\ UNCHANGED stdout
            /\ IF err
               THEN /\ Exit(1)
                    /\ UNCHANGED d_out
               ELSE /\ d_out' \in GridResults(d_out, GridStores(sel, grid, bs))
                    /\ pc' = to
                    /\ UNCHANGED exit_code

Launched(err) == dispatch(kernel_num) # 0 /\ ~err

\* main, line 167
MainCheck(err) ==
    /\ pc = "check"
    /\ EncoderForward(check_block_size, err, pc_after_check)
    /\ hist' = IF Launched(err) THEN [hist EXCEPT !.launches = @ + 1] ELSE hist
    /\ UNCHANGED <<B, T, C, V, inp, wte, wpe, out, kernel_num, phase, thr,
                   accesses, nwrites, ref_out, synced_once>>
    /\ UNCHANGED <<argv, j, rep, elapsed, tick>>

\* validate_result of common.h (line 168): the offsets where the device result is
\* off by more than the tolerance 1e-5, which is below the unit of the model's
\* values; the first one is reported and the process exits
Mismatch == {o \in DOMAIN out : out[o] # d_out[o]}

MainValidate ==
    /\ pc = "validate"
    /\ IF Mismatch # {}
       THEN LET o == CHOOSE x \in Mismatch : \A y \in Mismatch : x <= y
            IN /\ stdout' = Append(stdout, [kind |-> "mismatch", index |-> o,
                                            ref |-> out[o], got |-> d_out[o]])
               /\ Exit(1)
               /\ hist' = [hist EXCEPT !.validator = @ + 1]
       ELSE /\ pc' = "bench"
            /\ hist' = [hist EXCEPT !.validator = @ + 1, !.validated = TRUE]
            /\ UNCHANGED <<stdout, exit_code>>
    /\ UNCHANGED kvars
    /\ UNCHANGED <<argv, j, rep, elapsed, tick>>

\* one round of the loop of benchmark_kernel of common.h (line 177): a timed call
\* of encoder_forward, which takes `tick' > 0 ticks of the clock
MainBenchCall(err) ==
    /\ pc = "bench"
    /\ j < Len(block_sizes)
    /\ rep < repeat_times
    /\ EncoderForward(block_sizes[j + 1], err,
                      IF rep + 1 < repeat_times THEN "bench" ELSE "report")
    /\ IF Launched(err)
       THEN /\ rep' = rep + 1
            /\ elapsed' = elapsed + tick
            /\ hist' = [hist EXCEPT !.launches = @ + 1, !.calls[j + 1] = @ + 1]
       ELSE UNCHANGED <<rep, elapsed, hist>>
    /\ UNCHANGED <<B, T, C, V, inp, wte, wpe, out, kernel_num, phase, thr,
                   accesses, nwrites, ref_out, synced_once>>
    /\ UNCHANGED <<argv, j, tick>>

\* main, lines 177-187: benchmark_kernel returns elapsed / repeat_times; the
\* bandwidth memory_ops / elapsed_time / 1e6 is kept as its operands
MainReport ==
    /\ pc = "report"
    /\ stdout' = Append(stdout, [kind |-> "timing", block_size |-> block_sizes[j + 1],
                                 time |-> <<elapsed, repeat_times>>,
                                 ops |-> memory_ops])
    /\ j' = j + 1
    /\ rep' = 0
    /\ elapsed' = 0
    /\ pc' = IF j + 1 < Len(block_sizes) THEN "bench" ELSE "teardown"
    /\ UNCHANGED kvars
    /\ UNCHANGED <<argv, exit_code, tick, hist>>

\* main, lines 190-200; err: a cudaFree fails and cudaCheck exits
MainTeardown(err) ==
    /\ pc = "teardown"
    /\ IF err THEN Exit(1) ELSE pc' = "done" /\ exit_code' = 0
    /\ UNCHANGED kvars
    /\ UNCHANGED <<argv, stdout, j, rep, elapsed, tick, hist>>

MainNext ==
    \/ \E err \in BOOLEAN : MainSetup(err)
    \/ MainCpu
    \/ \E err \in BOOLEAN : MainCheck(err)
    \/ MainValidate
    \/ \E err \in BOOLEAN : MainBenchCall(err)
    \/ MainReport
    \/ \E err \in BOOLEAN : MainTeardown(err)

SpecMain == MainInit /\ [][MainNext]_vars

\* =================================================================== claims
\* helpers of the statements below
Completed == phase \in {"running", "synced"} /\ AllDone
Elems == B * T * C
OffsetOf(b, t, c) == b * T * C + t * C + c
\* the number of workers the claims give each variant
ClaimedN == IF kernel_num = 1 THEN B * T ELSE B * T * C
\* the tables are injective: a stored sum names the two offsets that were read
WteOffOf(v) == (v \div 100) - 1
WpeOffOf(v) == (v % 100) - 1
InRange(off, n) == 0 <= off /\ off < n
TimingLines == {k \in 1..Len(stdout) : stdout[k].kind = "timing"}
BenchCalls == {k \in DOMAIN hist.calls : hist.calls[k] > 0}

\* C1: once an invocation of either kernel has completed, every element of the
\* device output equals the CPU reference's element at the same position, and that
\* is wte[inp[b,t],c] + wpe[t,c].
C1_Equivalence ==
    phase = "synced" =>
        \A b \in 0..(B - 1), t \in 0..(T - 1), c \in 0..(C - 1) :
            /\ d_out[OffsetOf(b, t, c)] = out[OffsetOf(b, t, c)]
            /\ d_out[OffsetOf(b, t, c)] = wte[inp[b * T + t] * C + c] + wpe[t * C + c]

C1_Witness ==
    /\ phase = "synced" /\ kernel_num = 1
    /\ B = 2 /\ T = 2 /\ C = 2 /\ V = 2
    /\ inp[0] # inp[1]

\* C4: whatever the block size, the launch has ceil(N / block_size) groups, every
\* linear index below N belongs to exactly one worker, a worker whose index is N or
\* more makes no access, and the completed output is the one of the first launch
\* and of the reference.
C4_BlockSizeInvariance ==
    phase \in {"running", "synced"} =>
        /\ block_size >= 1
        /\ grid_size * block_size >= ClaimedN
        /\ (grid_size - 1) * block_size < ClaimedN
        /\ DOMAIN thr = Workers(grid_size, block_size)
        /\ \A idx \in 0..(ClaimedN - 1) :
               Cardinality({w \in DOMAIN thr : Idx(w) = idx}) = 1
        /\ \A w \in DOMAIN thr : Idx(w) >= ClaimedN => accesses[w] = {}
        /\ AllDone => d_out = out /\ (synced_once => d_out = ref_out)

C4_Witness ==
    /\ phase = "synced" /\ kernel_num = 2
    /\ block_size = 3 /\ ClaimedN % block_size # 0 /\ grid_size >= 2
    /\ synced_once /\ d_out = ref_out
    /\ \E w \in DOMAIN thr : Idx(w) >= ClaimedN

\* C5: an invocation that has completed has stored into every element of the
\* output, so nothing of the prior contents is left, and a later invocation ends
\* with the contents the first one ended with, in whatever order the workers ran.
C5_Determinism ==
    Completed =>
        /\ \A o \in 0..(Elems - 1) : nwrites[o] >= 1
        /\ synced_once => d_out = ref_out

C5_Witness ==
    /\ phase = "running" /\ AllDone /\ synced_once
    /\ kernel_num = 2 /\ Elems >= 4
    /\ d_out = ref_out

\* C6: in a completed output of either kernel and in the reference, an element of a
\* token 0 comes from row 0 of wte, of a token V-1 from the last row of wte, of
\* position 0 from row 0 of wpe and of position T-1 from the last row of wpe, each
\* at the element's channel.
C6_IndexBoundaries ==
    Completed =>
        \A b \in 0..(B - 1), t \in 0..(T - 1), c \in 0..(C - 1) :
            \A v \in {d_out[OffsetOf(b, t, c)], out[OffsetOf(b, t, c)]} :
                /\ inp[b * T + t] = 0 => WteOffOf(v) = c
                /\ inp[b * T + t] = V - 1 => WteOffOf(v) = (V - 1) * C + c
                /\ t = 0 => WpeOffOf(v) = c
                /\ t = T - 1 => WpeOffOf(v) = (T - 1) * C + c

C6_Witness ==
    /\ Completed /\ kernel_num = 2
    /\ V >= 2 /\ T >= 2 /\ C >= 2
    /\ \E k \in DOMAIN inp : inp[k] = 0
    /\ \E k \in DOMAIN inp : inp[k] = V - 1

\* C9: within an invocation no element of the output is stored twice and no two
\* workers store the same element; a finished worker of kernel 1 has stored exactly
\* the elements idx*C .. idx*C + C-1 and one of kernel 2 exactly the element idx;
\* the decomposition of kernel 2 is a bijection between the indices and the
\* (b,t,c); a completed invocation has stored every element once; the output is
\* only stored and the inputs are only loaded.
C9_DisjointWrites ==
    phase \in {"running", "synced"} =>
        /\ \A o \in 0..(Elems - 1) : nwrites[o] <= 1
        /\ \A o \in 0..(Elems - 1) :
               Cardinality({w \in DOMAIN thr : <<"out", o, "w">> \in accesses[w]}) <= 1
        /\ \A w \in DOMAIN thr : \A a \in accesses[w] : a[3] = "w" <=> a[1] = "out"
        /\ \A w \in DOMAIN thr :
               LET stored == {a[2] : a \in {x \in accesses[w] : x[3] = "w"}}
                   mine == IF Idx(w) >= ClaimedN THEN {}
                           ELSE IF kernel_num = 1
                                THEN (Idx(w) * C)..(Idx(w) * C + C - 1)
                                ELSE {Idx(w)}
               IN /\ stored \subseteq mine
                  /\ thr[w].st = "done" => stored = mine
        /\ AllDone =>
               /\ \A o \in 0..(Elems - 1) : nwrites[o] = 1
               /\ \A idx \in 0..(Elems - 1) :
                      /\ kernel2_b(idx) \in 0..(B - 1)
                      /\ kernel2_t(idx) \in 0..(T - 1)
                      /\ kernel2_c(idx) \in 0..(C - 1)
                      /\ kernel2_out_btc(idx) = idx
               /\ Cardinality({<<kernel2_b(idx), kernel2_t(idx), kernel2_c(idx)>> :
                                   idx \in 0..(Elems - 1)}) = Elems

C9_Witness ==
    /\ Completed /\ kernel_num = 1
    /\ C >= 2 /\ B * T >= 3 /\ grid_size >= 2

\* C10: every load of inp is at an offset in [0, B*T), of wte in [0, V*C), of wpe
\* in [0, T*C) and every store of out in [0, B*T*C); a worker whose index is N or
\* more makes no access.
C10_MemorySafety ==
    /\ \A k \in DOMAIN inp : inp[k] \in 0..(V - 1)
    /\ \A w \in DOMAIN thr : \A a \in accesses[w] :
           CASE a[1] = "inp" -> InRange(a[2], B * T)
             [] a[1] = "wte" -> InRange(a[2], V * C)
             [] a[1] = "wpe" -> InRange(a[2], T * C)
             [] a[1] = "out" -> InRange(a[2], B * T * C)
             [] OTHER -> FALSE
    /\ \A w \in DOMAIN thr : Idx(w) >= ClaimedN => accesses[w] = {}

C10_Witness ==
    /\ phase = "running" /\ kernel_num = 1
    /\ ClaimedN % block_size # 0
    /\ \E w \in DOMAIN thr : Idx(w) = ClaimedN /\ thr[w].st = "done"
    /\ \E w \in DOMAIN thr : <<"wte", V * C - 1, "r">> \in accesses[w]

\* C2: with a selector other than 1 and 2 no kernel is launched, the device output
\* keeps its prior contents, the validator is not called, no timing line is printed
\* and main does not get past the dispatcher: the call prints the error and the
\* process ends with status 1.
C2_InvalidSelector ==
    (pc # "start" /\ kernel_num \notin {1, 2}) =>
        /\ hist.launches = 0
        /\ hist.validator = 0
        /\ ~hist.validated
        /\ \A o \in DOMAIN d_out : d_out[o] \in JunkVals
        /\ TimingLines = {}
        /\ BenchCalls = {}
        /\ pc \in {"cpu", "check", "exited"}
        /\ pc = "exited" =>
               /\ exit_code = 1
               /\ stdout = <<[kind |-> "using", kernel |-> kernel_num],
                             [kind |-> "invalid"]>>

C2_Witness ==
    /\ pc = "exited" /\ kernel_num = 3 /\ exit_code = 1
    /\ Len(stdout) = 2 /\ stdout[2].kind = "invalid"

C7_OutputOrder ==
    LET expected == <<32, 64, 128, 256, 512, 1024>>
    IN  /\ \A k \in TimingLines :
               /\ k >= 2 /\ k - 1 <= 6
               /\ stdout[k].block_size = expected[k - 1]
               /\ hist.calls[k - 1] = 1000
               /\ stdout[1] = [kind |-> "using", kernel |-> kernel_num]
               /\ \A m \in 2..k : m \in TimingLines
        /\ \A k \in BenchCalls :
               /\ hist.calls[k] <= 1000
               /\ k > 1 => (k \in TimingLines /\ hist.calls[k - 1] = 1000)
               /\ (k + 1) \in TimingLines <=> (k < j + 1)
        /\ pc = "done" <=> exit_code = 0
        /\ pc \in {"teardown", "done"} =>
               /\ Len(stdout) = 7
               /\ TimingLines = 2..7
               /\ \A k \in 1..6 : hist.calls[k] = 1000

C7_Witness ==
    /\ pc = "done" /\ exit_code = 0 /\ kernel_num = 1 /\ Len(stdout) = 7

====
